---- MODULE Spec2Model ----
(***************************************************************************)
(* Model of src/app.ts: a command-line tool that obtains a git diff and    *)
(* asks one of three AI backends for a commit message.                     *)
(*                                                                         *)
(* Text is a sequence of strings.  Data that comes from outside the        *)
(* program (the --source value, environment values, subprocess output,     *)
(* backend replies) is a sequence of one-character strings, so that        *)
(* startsWith, split, trim and decode are computed character by character. *)
(* A literal of the program that is only ever concatenated or printed is   *)
(* one element of such a sequence.                                         *)
(***************************************************************************)
EXTENDS Integers, Sequences, FiniteSets, TLC

VARIABLES
    gitCommand,     \* module constant gitCommand (line 5)
    args,           \* result of parseArgs
    pc,             \* position of main / of the awaited callee
    proc,           \* the subprocess being awaited, with the output it will produce
    net,            \* the backend request being awaited, with the reply it will produce
    inFlight,       \* external operations started and not yet completed
    spawned,        \* every subprocess started so far: [cmd, args]
    requests,       \* every backend request started so far (its prompt)
    aiService,      \* the constructed backend
    diff,           \* value of `const diff` once getDiff has returned
    generateCalls,  \* number of generateMessage invocations
    message,        \* value of `const message`
    error,          \* the Error thrown out of main
    stdout,         \* console.log calls, in order
    stderr,         \* console.error calls, in order
    credential,     \* what Deno.env.get returned for the backend's key, once read
    exitCode        \* exit status of the process once it has ended

vars == <<gitCommand, args, pc, proc, net, inFlight, spawned, requests,
          aiService, diff, generateCalls, message, error, stdout, stderr,
          credential, exitCode>>

----------------------------------------------------------------------------
(* Bounds *)

MaxLen == 2        \* longest subprocess stream / backend reply enumerated
MaxOther == 1      \* longest content of the stream the code does not read

----------------------------------------------------------------------------
(* Text helpers *)

RECURSIVE SeqsUpTo(_, _)
SeqsUpTo(S, n) ==
    IF n = 0 THEN {<<>>}
    ELSE LET shorter == SeqsUpTo(S, n - 1)
         IN  shorter \cup {Append(s, x) : s \in {t \in shorter : Len(t) = n - 1}, x \in S}

WhiteSpace == {" ", "\n"}

StartsWith(s, p) == Len(s) >= Len(p) /\ SubSeq(s, 1, Len(p)) = p

RECURSIVE Split(_, _)
Split(s, sep) ==
    IF \A i \in 1..Len(s) : s[i] # sep
    THEN <<s>>
    ELSE LET i == CHOOSE k \in 1..Len(s) :
                     s[k] = sep /\ \A j \in 1..(k - 1) : s[j] # sep
         IN  <<SubSeq(s, 1, i - 1)>> \o Split(SubSeq(s, i + 1, Len(s)), sep)

RECURSIVE Join(_, _)
Join(parts, sep) ==
    IF Len(parts) = 0 THEN <<>>
    ELSE IF Len(parts) = 1 THEN parts[1]
    ELSE parts[1] \o sep \o Join(Tail(parts), sep)

RECURSIVE TrimStart(_)
TrimStart(s) ==
    IF Len(s) > 0 /\ s[1] \in WhiteSpace THEN TrimStart(Tail(s)) ELSE s

RECURSIVE TrimEnd(_)
TrimEnd(s) ==
    IF Len(s) > 0 /\ s[Len(s)] \in WhiteSpace
    THEN TrimEnd(SubSeq(s, 1, Len(s) - 1)) ELSE s

Trim(s) == TrimEnd(TrimStart(s))

(* new TextDecoder().decode(bytes): an ASCII byte is its character, a byte *)
(* that is not valid UTF-8 becomes U+FFFD.                                 *)
Bytes == {10, 32, 97, 255}

Chars == {" ", "a"}

DecodeByte(b) ==
    CASE b = 10 -> "\n"
      [] b = 32 -> " "
      [] b = 97 -> "a"
      [] OTHER  -> "U+FFFD"

TextDecode(bytes) == [i \in 1..Len(bytes) |-> DecodeByte(bytes[i])]

----------------------------------------------------------------------------
(* Environment and command line *)

Unset == [set |-> FALSE, val |-> <<>>]

EnvValues == {Unset, [set |-> TRUE, val |-> <<>>], [set |-> TRUE, val |-> <<"k">>]}

\* Deno.env.get(name) || fallback
EnvOr(v, fallback) == IF v.set /\ v.val # <<>> THEN v.val ELSE fallback

STAGED == <<"s", "t", "a", "g", "e", "d">>
LAST == <<"l", "a", "s", "t">>
COMMIT_PREFIX == <<"c", "o", "m", "m", "i", "t", ":">>

Sources ==
    { STAGED, LAST,
      COMMIT_PREFIX \o <<"a">>,
      COMMIT_PREFIX \o <<"a", ":", "b">>,
      COMMIT_PREFIX,
      <<"f", "o", "o">> }

Providers == {"openai", "claude", "google", "foo"}

supportedProviders == <<"openai", "claude", "google">>

ArgsSet ==
    [help : BOOLEAN, ai : Providers, source : Sources,
     verbose : BOOLEAN, command : BOOLEAN]

----------------------------------------------------------------------------
(* Values of the state *)

NoProc == [live |-> FALSE, found |-> TRUE, code |-> 0, out |-> <<>>, err |-> <<>>]

NoNet == [live |-> FALSE, kind |-> "none", content |-> <<>>]

NoError == [thrown |-> FALSE, message |-> <<>>]

NoService == [made |-> FALSE, kind |-> "none", apiKey |-> <<>>]

NoText == [set |-> FALSE, text |-> <<>>]

ExitCodes == {0, 1, 128}

\* What a subprocess can do once started: the executable is missing, or it
\* runs and ends with an exit code and two captured streams.  The stream
\* that decides the caller's result ranges over the longer strings.
ProcOutcomes ==
    {[live |-> TRUE, found |-> FALSE, code |-> 0, out |-> <<>>, err |-> <<>>]}
    \cup [live : {TRUE}, found : {TRUE}, code : {0},
          out : SeqsUpTo(Bytes, MaxLen), err : SeqsUpTo(Bytes, MaxOther)]
    \cup [live : {TRUE}, found : {TRUE}, code : ExitCodes \ {0},
          out : SeqsUpTo(Bytes, MaxOther), err : SeqsUpTo(Bytes, MaxLen)]

\* What the chat-completion endpoint can answer.
OpenAIReplies ==
    [live : {TRUE},
     kind : {"networkError", "notOk", "badJson", "noChoices", "emptyChoices", "noContent"},
     content : {<<>>}]
    \cup [live : {TRUE}, kind : {"content"}, content : SeqsUpTo(Chars, MaxLen)]

\* What model.generateContent / result.response.text() can produce.
GoogleReplies ==
    [live : {TRUE}, kind : {"sdkError"}, content : {<<>>}]
    \cup [live : {TRUE}, kind : {"text"}, content : SeqsUpTo(Chars, MaxLen)]

----------------------------------------------------------------------------
(* Messages *)

UsageText == <<"Usage: app-name [options] ...">>

NotARepositoryText == <<"Not a Git repository.">>

NoChangesText == <<"No changes to generate a message for.">>

InvalidSourceText == <<"Invalid source">>

InvalidProviderText == <<"Invalid AI provider">>

OpenAIKeyMissingText ==
    <<"OPENAI_API_KEY environment variable is not set. Please set it using \"export OPENAI_API_KEY=your-key\"">>

GoogleKeyMissingText ==
    <<"GOOGLE_API_KEY environment variable is not set. Please set it using \"export GOOGLE_API_KEY=your-key\"">>

ClaudeNotImplementedText == <<"Claude service not implemented yet">>

OpenAIInvalidFormatText == <<"Invalid response format from OpenAI API">>

GoogleNoContentText == <<"No content generated from Google Gemini API">>

StatusText == <<"Unauthorized">>

OpenAIRequestFailedText == <<"OpenAI API request failed: ">> \o StatusText

GitCommandFailedPrefix == <<"Git command failed: ">>

UnsupportedProviderText(ai) ==
    <<"Unsupported AI provider: ", ai, ". Supported providers: ">>
    \o Join([i \in 1..Len(supportedProviders) |-> <<supportedProviders[i]>>], <<", ">>)

\* Errors raised by the runtime or the client library, not by app.ts.
NotFoundText == <<"NotFound: Failed to spawn">>
FetchFailedText == <<"TypeError: error sending request">>
JsonSyntaxText == <<"SyntaxError: Unexpected token">>
SdkErrorText == <<"GoogleGenerativeAIError">>

Prompt(d) ==
    <<"Write a concise Git commit message that summarizes the following code changes:\n\n">> \o d

Throw(msg) == [thrown |-> TRUE, message |-> msg]

----------------------------------------------------------------------------
(* Pure parts of the functions *)

DefaultGit == <<"/usr/bin/git">>

\* const gitCommand = Deno.env.get('GIT_COMMAND') || '/usr/bin/git'
GitCommandOf(v) == EnvOr(v, DefaultGit)

\* createOpenAIService without the credential check
CreateOpenAIServiceNoCheck(v) ==
    [ok |-> TRUE, error |-> NoError,
     service |-> [made |-> TRUE, kind |-> "openai", apiKey |-> EnvOr(v, <<>>)]]

\* createOpenAIService: the credential check
CreateOpenAIService(v) ==
    LET apiKey == EnvOr(v, <<>>)
    IN  IF apiKey = <<>>
        THEN [ok |-> FALSE, service |-> NoService, error |-> Throw(OpenAIKeyMissingText)]
        ELSE [ok |-> TRUE, error |-> NoError,
              service |-> [made |-> TRUE, kind |-> "openai", apiKey |-> apiKey]]

\* createGoogleService: the credential check
CreateGoogleService(v) ==
    LET apiKey == EnvOr(v, <<>>)
    IN  IF apiKey = <<>>
        THEN [ok |-> FALSE, service |-> NoService, error |-> Throw(GoogleKeyMissingText)]
        ELSE [ok |-> TRUE, error |-> NoError,
              service |-> [made |-> TRUE, kind |-> "google", apiKey |-> apiKey]]

\* createClaudeService reads no configuration
CreateClaudeService ==
    [ok |-> TRUE, error |-> NoError,
     service |-> [made |-> TRUE, kind |-> "claude", apiKey |-> <<>>]]

\* the switch over args.ai
SelectService(ai, v) ==
    CASE ai = "openai" -> CreateOpenAIService(v)
      [] ai = "claude" -> CreateClaudeService
      [] ai = "google" -> CreateGoogleService(v)
      [] OTHER -> [ok |-> FALSE, service |-> NoService, error |-> Throw(InvalidProviderText)]

\* supportedProviders.includes(args.ai)
IsSupported(ai) == \E i \in 1..Len(supportedProviders) : supportedProviders[i] = ai

\* getDiff falling back to the staged diff instead of rejecting the selector
GetDiffCmdFallback(source) ==
    IF source = LAST THEN [valid |-> TRUE, cmd |-> <<<<"show">>, <<"HEAD">>>>]
    ELSE IF StartsWith(source, COMMIT_PREFIX)
         THEN [valid |-> TRUE, cmd |-> <<<<"show">>, Split(source, ":")[2]>>]
    ELSE [valid |-> TRUE, cmd |-> <<<<"diff">>, <<"--cached">>>>]

\* getDiff: the selector to the argument vector
GetDiffCmd(source) ==
    IF source = STAGED THEN [valid |-> TRUE, cmd |-> <<<<"diff">>, <<"--cached">>>>]
    ELSE IF source = LAST THEN [valid |-> TRUE, cmd |-> <<<<"show">>, <<"HEAD">>>>]
    ELSE IF StartsWith(source, COMMIT_PREFIX)
         THEN [valid |-> TRUE, cmd |-> <<<<"show">>, Split(source, ":")[2]>>]
    ELSE [valid |-> FALSE, cmd |-> <<>>]

\* the log line without the executable
RunningLineArgsOnly(git, cmd) ==
    <<"Running git command:", " ">> \o Join(cmd, <<" ">>)

\* 'Running git command:' followed by [gitCommand, ...cmd].join(' ')
RunningLine(git, cmd) ==
    <<"Running git command:", " ">> \o Join(<<git>> \o cmd, <<" ">>)

\* getDiff returning the trimmed output
GetDiffResultTrimmed(p) ==
    IF ~p.found THEN [ok |-> FALSE, text |-> <<>>, error |-> Throw(NotFoundText)]
    ELSE IF p.code # 0
    THEN [ok |-> FALSE, text |-> <<>>,
          error |-> Throw(GitCommandFailedPrefix \o TextDecode(p.err))]
    ELSE [ok |-> TRUE, text |-> Trim(TextDecode(p.out)), error |-> NoError]

\* getDiff not looking at the exit code
GetDiffResultAnyCode(p) ==
    IF ~p.found THEN [ok |-> FALSE, text |-> <<>>, error |-> Throw(NotFoundText)]
    ELSE [ok |-> TRUE, text |-> TextDecode(p.out), error |-> NoError]

\* getDiff after process.output() has resolved
GetDiffResult(p) ==
    IF ~p.found THEN [ok |-> FALSE, text |-> <<>>, error |-> Throw(NotFoundText)]
    ELSE IF p.code # 0
    THEN [ok |-> FALSE, text |-> <<>>,
          error |-> Throw(GitCommandFailedPrefix \o TextDecode(p.err))]
    ELSE [ok |-> TRUE, text |-> TextDecode(p.out), error |-> NoError]

\* !diff
IsBlankNoTrim(text) == text = <<>>

\* !diff.trim()
IsBlank(text) == Trim(text) = <<>>

\* an awaited operation is over once its promise has resolved
Started(ops, op) == ops \cup {op}
CompletedNotAwaited(ops, op) == ops
Completed(ops, op) == ops \ {op}

\* a stub that resolves with an empty message
ClaudeGenerateMessageEmpty(d) ==
    [ok |-> TRUE, text |-> <<>>, error |-> NoError]

\* createClaudeService().generateMessage after the timer has fired
ClaudeGenerateMessage(d) ==
    [ok |-> FALSE, text |-> <<>>, error |-> Throw(ClaudeNotImplementedText)]

\* createOpenAIService().generateMessage after fetch has resolved:
\* stop on a transport failure or a non-2xx status, else go on to the body
OpenAIFetchResult(reply) ==
    IF reply.kind = "networkError" THEN [ok |-> FALSE, error |-> Throw(FetchFailedText)]
    ELSE IF reply.kind = "notOk" THEN [ok |-> FALSE, error |-> Throw(OpenAIRequestFailedText)]
    ELSE [ok |-> TRUE, error |-> NoError]

\* createOpenAIService().generateMessage after response.json() has resolved
OpenAIJsonResult(reply) ==
    IF reply.kind = "badJson"
    THEN [ok |-> FALSE, text |-> <<>>, error |-> Throw(JsonSyntaxText)]
    ELSE IF reply.kind # "content" \/ reply.content = <<>>
    THEN [ok |-> FALSE, text |-> <<>>, error |-> Throw(OpenAIInvalidFormatText)]
    ELSE [ok |-> TRUE, text |-> Trim(reply.content), error |-> NoError]

\* createGoogleService().generateMessage after generateContent has resolved
GoogleResult(reply) ==
    IF reply.kind = "sdkError"
    THEN [ok |-> FALSE, text |-> <<>>, error |-> Throw(SdkErrorText)]
    ELSE IF reply.content = <<>>
    THEN [ok |-> FALSE, text |-> <<>>, error |-> Throw(GoogleNoContentText)]
    ELSE [ok |-> TRUE, text |-> Trim(reply.content), error |-> NoError]

----------------------------------------------------------------------------
(* The run of main *)

NotExited == [exited |-> FALSE, code |-> 0]

GitEnvValues == {Unset, [set |-> TRUE, val |-> <<>>], [set |-> TRUE, val |-> <<"g">>]}

NotRead == [read |-> FALSE, value |-> Unset]

Init ==
    /\ gitCommand \in {GitCommandOf(v) : v \in GitEnvValues}
    /\ args \in ArgsSet
    /\ pc = "start"
    /\ proc = NoProc
    /\ net = NoNet
    /\ inFlight = {}
    /\ spawned = <<>>
    /\ requests = <<>>
    /\ aiService = NoService
    /\ diff = NoText
    /\ generateCalls = 0
    /\ message = NoText
    /\ error = NoError
    /\ stdout = <<>>
    /\ stderr = <<>>
    /\ credential = NotRead
    /\ exitCode = NotExited

\* parseArgs and the help branch
MainParseArgs ==
    /\ pc = "start"
    /\ IF args.help
       THEN /\ stdout' = Append(stdout, UsageText)
            /\ exitCode' = [exited |-> TRUE, code |-> 0]
            /\ pc' = "exited"
       ELSE /\ pc' = "isGitRepository"
            /\ UNCHANGED <<stdout, exitCode>>
    /\ UNCHANGED <<gitCommand, args, proc, net, inFlight, spawned, requests,
                   aiService, diff, generateCalls, message, error, stderr, credential>>

\* isGitRepository up to its await
IsGitRepositoryCall ==
    /\ pc = "isGitRepository"
    /\ spawned' = Append(spawned, [cmd |-> gitCommand,
                                   args |-> <<<<"rev-parse">>, <<"--is-inside-work-tree">>>>])
    /\ proc' \in {o \in ProcOutcomes : o.out = <<>> /\ o.err = <<>>}
    /\ inFlight' = Started(inFlight, "probe")
    /\ pc' = "probeWait"
    /\ UNCHANGED <<gitCommand, args, net, requests, aiService, diff, generateCalls,
                   message, error, stdout, stderr, credential, exitCode>>

\* isGitRepository after its await, and main's test of the result
IsGitRepositoryDone ==
    /\ pc = "probeWait"
    /\ inFlight' = Completed(inFlight, "probe")
    /\ proc' = NoProc
    /\ IF ~proc.found
       THEN /\ error' = Throw(NotFoundText)
            /\ pc' = "rejected"
            /\ UNCHANGED stderr
       ELSE IF proc.code = 0
       THEN /\ pc' = "validate"
            /\ UNCHANGED <<error, stderr>>
       ELSE /\ stderr' = Append(stderr, NotARepositoryText)
            /\ pc' = "returned"
            /\ UNCHANGED error
    /\ UNCHANGED <<gitCommand, args, net, spawned, requests, aiService, diff,
                   generateCalls, message, stdout, credential, exitCode>>

\* the supportedProviders test
ValidateProvider ==
    /\ pc = "validate"
    /\ IF IsSupported(args.ai)
       THEN pc' = "construct" /\ UNCHANGED error
       ELSE pc' = "rejected" /\ error' = Throw(UnsupportedProviderText(args.ai))
    /\ UNCHANGED <<gitCommand, args, proc, net, inFlight, spawned, requests,
                   aiService, diff, generateCalls, message, stdout, stderr,
                   credential, exitCode>>

\* the switch that builds aiService; a backend that needs a key reads it here
Construct(next) ==
    /\ pc = "construct"
    /\ \E v \in EnvValues :
         LET r == SelectService(args.ai, v)
         IN  /\ credential' = IF args.ai \in {"openai", "google"}
                              THEN [read |-> TRUE, value |-> v] ELSE credential
             /\ args.ai \notin {"openai", "google"} => v = Unset
             /\ aiService' = r.service
             /\ error' = r.error
             /\ pc' = IF r.ok THEN next ELSE "rejected"
    /\ UNCHANGED <<gitCommand, args, proc, net, inFlight, spawned, requests, diff,
                   generateCalls, message, stdout, stderr, exitCode>>

ConstructService == Construct("getDiff")

\* getDiff up to its await
GetDiffCall ==
    /\ pc = "getDiff"
    /\ LET c == GetDiffCmd(args.source)
       IN  IF c.valid
           THEN /\ stdout' = Append(stdout, RunningLine(gitCommand, c.cmd))
                /\ spawned' = Append(spawned, [cmd |-> gitCommand, args |-> c.cmd])
                /\ proc' \in ProcOutcomes
                /\ inFlight' = Started(inFlight, "diff")
                /\ pc' = "diffWait"
                /\ UNCHANGED error
           ELSE /\ error' = Throw(InvalidSourceText)
                /\ pc' = "rejected"
                /\ UNCHANGED <<stdout, spawned, proc, inFlight>>
    /\ UNCHANGED <<gitCommand, args, net, requests, aiService, diff, generateCalls,
                   message, stderr, credential, exitCode>>

\* getDiff after its await
GetDiffDone ==
    /\ pc = "diffWait"
    /\ inFlight' = Completed(inFlight, "diff")
    /\ proc' = NoProc
    /\ LET r == GetDiffResult(proc)
       IN  IF r.ok
           THEN /\ diff' = [set |-> TRUE, text |-> r.text]
                /\ pc' = "checkDiff"
                /\ UNCHANGED error
           ELSE /\ error' = r.error
                /\ pc' = "rejected"
                /\ UNCHANGED diff
    /\ UNCHANGED <<gitCommand, args, net, spawned, requests, aiService,
                   generateCalls, message, stdout, stderr, credential, exitCode>>

\* the empty-diff test and the verbose output
CheckDiff ==
    /\ pc = "checkDiff"
    /\ IF IsBlank(diff.text)
       THEN /\ stdout' = Append(stdout, NoChangesText)
            /\ pc' = "returned"
       ELSE /\ stdout' = IF args.verbose
                         THEN stdout \o <<<<"Original Diff:">>, diff.text>>
                         ELSE stdout
            /\ pc' = "generate"
    /\ UNCHANGED <<gitCommand, args, proc, net, inFlight, spawned, requests,
                   aiService, diff, generateCalls, message, error, stderr,
                   credential, exitCode>>

\* aiService.generateMessage(diff) up to its first await
GenerateMessageCall ==
    /\ pc = "generate"
    /\ generateCalls' = generateCalls + 1
    /\ IF aiService.kind = "claude"
       THEN /\ pc' = "claudeYield"
            /\ UNCHANGED <<net, requests, inFlight>>
       ELSE /\ net' \in IF aiService.kind = "openai" THEN OpenAIReplies ELSE GoogleReplies
            /\ requests' = Append(requests, [to |-> aiService.kind,
                                             prompt |-> Prompt(diff.text)])
            /\ inFlight' = Started(inFlight, "net")
            /\ pc' = IF aiService.kind = "openai" THEN "fetchWait" ELSE "sdkWait"
    /\ UNCHANGED <<gitCommand, args, proc, spawned, aiService, diff, message,
                   error, stdout, stderr, credential, exitCode>>

\* OpenAI: after `await fetch`
OpenAIFetchDone ==
    /\ pc = "fetchWait"
    /\ LET r == OpenAIFetchResult(net)
       IN  IF r.ok
           THEN /\ pc' = "jsonWait"
                /\ UNCHANGED <<net, inFlight, error>>
           ELSE /\ error' = r.error
                /\ net' = NoNet
                /\ inFlight' = Completed(inFlight, "net")
                /\ pc' = "rejected"
    /\ UNCHANGED <<gitCommand, args, proc, spawned, requests, aiService, diff,
                   generateCalls, message, stdout, stderr, credential, exitCode>>

\* OpenAI: after `await response.json()`
OpenAIJsonDone ==
    /\ pc = "jsonWait"
    /\ net' = NoNet
    /\ inFlight' = Completed(inFlight, "net")
    /\ LET r == OpenAIJsonResult(net)
       IN  IF r.ok
           THEN message' = [set |-> TRUE, text |-> r.text] /\ pc' = "print" /\ UNCHANGED error
           ELSE error' = r.error /\ pc' = "rejected" /\ UNCHANGED message
    /\ UNCHANGED <<gitCommand, args, proc, spawned, requests, aiService, diff,
                   generateCalls, stdout, stderr, credential, exitCode>>

\* Google: after `await model.generateContent`
GoogleGenerateDone ==
    /\ pc = "sdkWait"
    /\ net' = NoNet
    /\ inFlight' = Completed(inFlight, "net")
    /\ LET r == GoogleResult(net)
       IN  IF r.ok
           THEN message' = [set |-> TRUE, text |-> r.text] /\ pc' = "print" /\ UNCHANGED error
           ELSE error' = r.error /\ pc' = "rejected" /\ UNCHANGED message
    /\ UNCHANGED <<gitCommand, args, proc, spawned, requests, aiService, diff,
                   generateCalls, stdout, stderr, credential, exitCode>>

\* Claude: after the zero-delay timer
ClaudeTimeoutDone ==
    /\ pc = "claudeYield"
    /\ LET r == ClaudeGenerateMessage(diff.text)
       IN  IF r.ok
           THEN message' = [set |-> TRUE, text |-> r.text] /\ pc' = "print" /\ UNCHANGED error
           ELSE error' = r.error /\ pc' = "rejected" /\ UNCHANGED message
    /\ UNCHANGED <<gitCommand, args, proc, net, inFlight, spawned, requests,
                   aiService, diff, generateCalls, stdout, stderr, credential, exitCode>>

\* the output of the message and of the commit command
PrintMessage ==
    /\ pc = "print"
    /\ stdout' = stdout \o <<<<"Suggested Commit Message:">>, message.text>>
                 \o IF args.command
                    THEN <<<<"\nRun the following command to commit:">>,
                           <<"git commit -m \"">> \o message.text \o <<"\"">>>>
                    ELSE <<>>
    /\ pc' = "returned"
    /\ UNCHANGED <<gitCommand, args, proc, net, inFlight, spawned, requests,
                   aiService, diff, generateCalls, message, error, stderr,
                   credential, exitCode>>

\* main().catch(...)
CatchHandler ==
    /\ pc = "rejected"
    /\ stderr' = Append(stderr, <<"Error:", " ">> \o error.message)
    /\ pc' = "handled"
    /\ UNCHANGED <<gitCommand, args, proc, net, inFlight, spawned, requests,
                   aiService, diff, generateCalls, message, error, stdout,
                   credential, exitCode>>

\* nothing is left to run: the promise of main().catch is fulfilled, no exit
\* code was set, and the runtime ends the process
ProcessEnd ==
    /\ pc \in {"returned", "handled"}
    /\ exitCode' = [exited |-> TRUE, code |-> 0]
    /\ pc' = "exited"
    /\ UNCHANGED <<gitCommand, args, proc, net, inFlight, spawned, requests,
                   aiService, diff, generateCalls, message, error, stdout, stderr,
                   credential>>

Next ==
    \/ MainParseArgs
    \/ IsGitRepositoryCall
    \/ IsGitRepositoryDone
    \/ ValidateProvider
    \/ ConstructService
    \/ GetDiffCall
    \/ GetDiffDone
    \/ CheckDiff
    \/ GenerateMessageCall
    \/ OpenAIFetchDone
    \/ OpenAIJsonDone
    \/ GoogleGenerateDone
    \/ ClaudeTimeoutDone
    \/ PrintMessage
    \/ CatchHandler
    \/ ProcessEnd

Spec == Init /\ [][Next]_vars

----------------------------------------------------------------------------
(* A backend on its own: a service is built for a supported provider and   *)
(* its generateMessage is applied to an arbitrary diff text, the empty and *)
(* the all-whitespace ones included.                                       *)

InitBackend ==
    /\ gitCommand = DefaultGit
    /\ args \in {a \in ArgsSet : /\ IsSupported(a.ai)
                                 /\ a.source = STAGED
                                 /\ ~a.help /\ ~a.verbose /\ ~a.command}
    /\ pc = "construct"
    /\ proc = NoProc
    /\ net = NoNet
    /\ inFlight = {}
    /\ spawned = <<>>
    /\ requests = <<>>
    /\ aiService = NoService
    /\ diff \in [set : {TRUE}, text : {TextDecode(b) : b \in SeqsUpTo(Bytes, MaxLen)}]
    /\ generateCalls = 0
    /\ message = NoText
    /\ error = NoError
    /\ stdout = <<>>
    /\ stderr = <<>>
    /\ credential = NotRead
    /\ exitCode = NotExited

ConstructBackend == Construct("generate")

NextBackend ==
    \/ ConstructBackend
    \/ GenerateMessageCall
    \/ OpenAIFetchDone
    \/ OpenAIJsonDone
    \/ GoogleGenerateDone
    \/ ClaudeTimeoutDone

SpecBackend == InitBackend /\ [][NextBackend]_vars

----------------------------------------------------------------------------
(* Properties *)

ProbeArgs == <<<<"rev-parse">>, <<"--is-inside-work-tree">>>>

IsProbe(s) == s.args = ProbeArgs

DiffSpawns == {i \in 1..Len(spawned) : ~IsProbe(spawned[i])}

AllWhiteSpace(t) == \A i \in 1..Len(t) : t[i] \in {" ", "\n"}

Printed(line) == \E i \in 1..Len(stdout) : stdout[i] = line

Finished == pc = "exited"

Foo == <<"f", "o", "o">>

\* C1: a run without --help whose --ai value is outside {openai, claude,
\* google} fails with the unsupported-provider error before any backend is
\* constructed and before any git subprocess (probe or diff) is started.
C1_UnsupportedProviderFailsFirst ==
    (~args.help /\ args.ai \notin {"openai", "claude", "google"}) =>
        /\ spawned = <<>>
        /\ ~aiService.made
        /\ Finished =>
             /\ error.thrown
             /\ error.message =
                  <<"Unsupported AI provider: ", args.ai, ". Supported providers: ",
                    "openai", ", ", "claude", ", ", "google">>

\* C2: every failure raised in main reaches the top-level handler unchanged,
\* is printed as 'Error: <message>' on the error stream, and the process
\* ends with a non-zero status; only runs without a failure end with 0.
C2_FailureEndsNonZero ==
    Finished =>
        IF error.thrown
        THEN /\ stderr = <<<<"Error:", " ">> \o error.message>>
             /\ exitCode.exited /\ exitCode.code # 0
        ELSE exitCode.exited /\ exitCode.code = 0

\* C3: when getDiff has returned text that is empty or only whitespace, no
\* generateMessage is invoked and no request is made; the run prints the
\* informational line and ends without an error.
C3_BlankDiffNeverGenerates ==
    (diff.set /\ AllWhiteSpace(diff.text)) =>
        /\ generateCalls = 0
        /\ requests = <<>>
        /\ ~message.set
        /\ ~error.thrown
        /\ pc \in {"checkDiff", "returned", "exited"}
        /\ pc # "checkDiff" => stdout[Len(stdout)] = NoChangesText
        /\ Finished => exitCode.code = 0 /\ stderr = <<>>

C3_Witness ==
    /\ Finished
    /\ diff.set /\ diff.text = <<" ", "\n">>
    /\ args.verbose /\ args.command /\ args.ai = "google"
    /\ generateCalls = 0

\* C4: with provider openai or google and the credential absent (unset or
\* empty), the failure is raised when the backend is constructed: after the
\* probe, with no diff subprocess ever started and no request ever made,
\* whatever the selector is.
C4_MissingCredentialFailsAtConstruction ==
    LET absent == credential.read /\ (~credential.value.set \/ credential.value.val = <<>>)
    IN  /\ (args.ai \in {"openai", "google"} /\ (~credential.read \/ absent)) =>
              /\ DiffSpawns = {}
              /\ requests = <<>>
              /\ ~aiService.made
              /\ ~diff.set
        /\ absent =>
              /\ Len(spawned) = 1 /\ IsProbe(spawned[1])
              /\ pc \in {"rejected", "handled", "exited"}
              /\ error.thrown
              /\ error.message = IF args.ai = "openai" THEN OpenAIKeyMissingText
                                                       ELSE GoogleKeyMissingText

C4_Witness ==
    /\ Finished
    /\ args.ai = "openai" /\ args.source = Foo
    /\ credential.read /\ ~credential.value.set
    /\ error.message = OpenAIKeyMissingText
    /\ Len(spawned) = 1

\* C5: at most one external operation (probe, diff subprocess, backend
\* request) is in flight at any time, generateMessage starts only after the
\* diff text has been resolved, and nothing is in flight once main is over.
C5_OneOperationInFlight ==
    /\ Cardinality(inFlight) <= 1
    /\ ~(proc.live /\ net.live)
    /\ generateCalls > 0 => (diff.set /\ "diff" \notin inFlight /\ ~proc.live)
    /\ generateCalls <= 1 /\ Len(requests) <= 1
    /\ pc \in {"returned", "rejected", "handled", "exited"} => inFlight = {}

C5_Witness ==
    /\ pc = "jsonWait"
    /\ inFlight = {"net"}
    /\ diff.set /\ Len(spawned) = 2

AfterFirstColon(s) ==
    LET i == CHOOSE k \in 1..Len(s) : s[k] = ":" /\ \A j \in 1..(k - 1) : s[j] # ":"
    IN  SubSeq(s, i + 1, Len(s))

UpToColon(t) ==
    IF \A i \in 1..Len(t) : t[i] # ":" THEN t
    ELSE SubSeq(t, 1, (CHOOSE k \in 1..Len(t) :
                          t[k] = ":" /\ \A j \in 1..(k - 1) : t[j] # ":") - 1)

IsCommitSelector(s) == Len(s) >= 7 /\ SubSeq(s, 1, 7) = COMMIT_PREFIX

Recognized(s) == s = STAGED \/ s = LAST \/ IsCommitSelector(s)

QueryIs(hashOf(_)) ==
    \A i \in DiffSpawns :
        /\ i = 2 /\ Len(spawned) = 2
        /\ spawned[i].cmd = gitCommand
        /\ args.source = STAGED => spawned[i].args = <<<<"diff">>, <<"--cached">>>>
        /\ args.source = LAST => spawned[i].args = <<<<"show">>, <<"HEAD">>>>
        /\ IsCommitSelector(args.source) =>
               spawned[i].args = <<<<"show">>, hashOf(args.source)>>

ReturnsOutputUnchanged ==
    (pc = "diffWait" /\ proc.found /\ proc.code = 0) =>
        /\ diff'.set
        /\ Len(diff'.text) = Len(proc.out)
        /\ \A i \in 1..Len(proc.out) : diff'.text[i] = DecodeByte(proc.out[i])

HashToNextColon(s) == UpToColon(AfterFirstColon(s))

\* C6 as stated: getDiff issues 'diff --cached' for staged, 'show HEAD' for
\* last and 'show <hash>' for commit:<hash>, <hash> being all the text after
\* the first colon, and on exit 0 returns the decoded output unchanged.
C6_QueryHashIsRestOfSelector ==
    [](QueryIs(AfterFirstColon)) /\ [][ReturnsOutputUnchanged]_vars

\* C6 amended: as above, <hash> being the text after the first colon up to
\* the next colon, if there is one.
C6_QueryAndOutput ==
    [](QueryIs(HashToNextColon)) /\ [][ReturnsOutputUnchanged]_vars

C6_Witness ==
    /\ pc = "checkDiff"
    /\ args.source = COMMIT_PREFIX \o <<"a", ":", "b">>
    /\ spawned[2].args = <<<<"show">>, <<"a">>>>
    /\ diff.text = <<" ", "a">>

\* C7: when the diff subprocess ends with a non-zero code, getDiff throws
\* 'Git command failed: ' followed by the decoded standard error and returns
\* no text; no generateMessage call and no 'Suggested Commit Message:' line
\* follow in that run.
C7_NonZeroExitFails ==
    /\ [][(pc = "diffWait" /\ proc.found /\ proc.code # 0) =>
            /\ error'.thrown
            /\ Head(error'.message) = "Git command failed: "
            /\ Len(error'.message) = 1 + Len(proc.err)
            /\ \A i \in 1..Len(proc.err) :
                   error'.message[i + 1] = DecodeByte(proc.err[i])
            /\ ~diff'.set
            /\ pc' = "rejected"]_vars
    /\ []((error.thrown /\ Head(error.message) = "Git command failed: ") =>
            /\ ~diff.set
            /\ generateCalls = 0
            /\ requests = <<>>
            /\ ~Printed(<<"Suggested Commit Message:">>))

C7_Witness ==
    /\ Finished
    /\ args.source = COMMIT_PREFIX \o <<"a">>
    /\ error.message = <<"Git command failed: ", "a", " ">>
    /\ stderr = <<<<"Error:", " ", "Git command failed: ", "a", " ">>>>

EmptyStagedDiffRun ==
    Finished /\ args.source = STAGED /\ diff.set /\ diff.text = <<>>

\* C9 as stated: with selector 'staged' and an empty diff, the whole
\* standard output is the one line 'No changes to generate a message for.'
\* and the run ends without error.
C9_OnlyNoChangesLine ==
    EmptyStagedDiffRun =>
        /\ stdout = <<NoChangesText>>
        /\ ~error.thrown /\ exitCode.code = 0

\* C9 amended: with selector 'staged' and an empty diff, the standard output
\* is the line 'Running git command: <git> diff --cached' followed by the
\* line 'No changes to generate a message for.', and the run ends without
\* error.
C9_RunningLineThenNoChanges ==
    EmptyStagedDiffRun =>
        /\ stdout = << <<"Running git command:", " ">> \o gitCommand
                          \o <<" ", "diff", " ", "--cached">>,
                       <<"No changes to generate a message for.">> >>
        /\ stderr = <<>>
        /\ ~error.thrown /\ exitCode.code = 0

C9_Witness ==
    /\ EmptyStagedDiffRun
    /\ gitCommand = <<"/usr/bin/git">>
    /\ args.ai = "openai"
    /\ Len(stdout) = 2

\* C10: the claude backend is built without reading any credential, and its
\* generateMessage, for every diff text (the empty one included), yields
\* once and then throws 'Claude service not implemented yet': no request is
\* made and no message is returned.
C10_ClaudeAlwaysNotImplemented ==
    /\ [][(pc = "construct" /\ args.ai = "claude") =>
            /\ aiService'.made /\ aiService'.kind = "claude"
            /\ credential' = NotRead /\ ~error'.thrown]_vars
    /\ [][(pc = "generate" /\ aiService.kind = "claude") =>
            (pc' = "claudeYield" /\ ~error'.thrown)]_vars
    /\ [][pc = "claudeYield" =>
            /\ pc' = "rejected"
            /\ error' = [thrown |-> TRUE,
                         message |-> <<"Claude service not implemented yet">>]]_vars
    /\ [](aiService.kind = "claude" =>
            /\ ~message.set
            /\ requests = <<>> /\ inFlight = {} /\ ~net.live
            /\ pc \in {"generate", "claudeYield", "rejected"})

C10_Witness ==
    /\ pc = "rejected"
    /\ aiService.kind = "claude"
    /\ diff.text = <<>>
    /\ generateCalls = 1
    /\ error.message = ClaudeNotImplementedText

====
